---- MODULE Spec2Model ----
(***************************************************************************)
(* Model of satra/mindflows.                                               *)
(*                                                                         *)
(* Part 1: the DICOM conversion tool, src/sandbox/dicomconvert.py          *)
(*   (the command line of __main__, get_dicom_info, convert_dicoms,        *)
(*   write_cfg, infotodict) acting on the output directory.                *)
(* Part 2: the pure helpers of the workflow scripts (orderfiles,           *)
(*   pickfirst, getthreshop), each applied to inputs drawn in an Init.     *)
(***************************************************************************)
EXTENDS Integers, Sequences, FiniteSets, TLC

(***************************************************************************)
(* Bounds of the model.                                                    *)
(***************************************************************************)
\* number of subject ids
NSubj == 2
\* what the user does in one behaviour: invocations of the tool plus edit
\* files written
MaxOps == 3

Subjects == 1..NSubj
\* scan categories an info mapping may hold, in the order info.items() yields them
CatOrder == <<"bold", "dwi">>
Cats == {CatOrder[i] : i \in 1..Len(CatOrder)}
\* the DICOM run numbers of a scanning session
RunNos == {3, 5}

NoneVal == "None"
NiiGz == ".nii.gz"

\* the run lists of a category: runs in scan order, none twice
RunLists == {<<>>} \cup {<<v>> : v \in RunNos}
              \cup {<<p[1], p[2]>> : p \in {q \in RunNos \X RunNos : q[1] < q[2]}}
\* an info mapping: scan category -> list of run numbers; a run is of one
\* category at most
Infos == {i \in [Cats -> RunLists] :
             \A c, d \in Cats : \A m \in 1..Len(i[c]), n \in 1..Len(i[d]) :
                 c # d => i[c][m] # i[d][n]}
EmptyInfo == [c \in Cats |-> <<>>]

\* a JSON file <s>.auto.txt or <s>.edit.txt: absent, holding a mapping, or
\* present and not loadable
NoFile == [exists |-> FALSE, valid |-> FALSE, info |-> EmptyInfo]
Malformed == [exists |-> TRUE, valid |-> FALSE, info |-> EmptyInfo]
JsonFile(info) == [exists |-> TRUE, valid |-> TRUE, info |-> info]
\* the cfg file: absent, or its lines
NoCfg == [exists |-> FALSE, lines |-> <<>>]
CfgFile(lines) == [exists |-> TRUE, lines |-> lines]
\* outcome of a heuristic for a subject: raises, or a mapping
Raises == [raises |-> TRUE, info |-> EmptyInfo]
Returns(info) == [raises |-> FALSE, info |-> info]

\* subject lists given to one invocation: the first n subjects
SubjLists == {[i \in 1..n |-> i] : n \in 0..NSubj}

VARIABLES
    pc,         \* "idle" | "info" | "convert" | "done" | "raised"
    args,       \* arguments of the running invocation
    k,          \* subjects of args.subjs already handled by the running phase
    ops,        \* invocations started and edit files written so far
    tdir,       \* tdir[s]: the directory <outdir>/<s> exists
    edit,       \* the file <s>.edit.txt
    autotxt,    \* the file <s>.auto.txt
    cfg,        \* the file <s>.auto.cfg
    files,      \* files[s]: the files <tdir>/<category>/<name>
    lastsrc,    \* where the info of the latest conversion of s came from
    log,        \* what the running invocation did, one record per event
    jobs,       \* subjects with a submitted, not yet run, batch job
    helper      \* a call of one of the workflow helpers: function, input, result

vars == <<pc, args, k, ops, tdir, edit, autotxt,
          cfg, files, lastsrc, log, jobs, helper>>

toolvars == <<pc, args, k, ops, tdir, edit, autotxt, cfg, files, lastsrc, log, jobs>>

\* no helper is being called
NoHelper == [fn |-> "none", done |-> FALSE]

NoArgs == [mode |-> "none", subjs |-> <<>>, hfile |-> "none", heur |-> NoneVal,
           infoonly |-> FALSE, queue |-> NoneVal, ext |-> NiiGz]

(***************************************************************************)
(* write_cfg                                                               *)
(***************************************************************************)
\* '%s_run%02d_%02d%s' % (sid, r, v, ext): the four fields of the name
OutputName(sid, r, v, ext) == [sid |-> sid, r |-> r, v |-> v, ext |-> ext]

\* os.path.join(tdir, field, output)
OutFile(field, output) == [cat |-> field, name |-> output]

\* glob(os.path.join(tdir, field, '*' + ext)) over the files of tdir
GlobExt(fs, field, ext) == {f \in fs : f.cat = field /\ f.name.ext = ext}

\* the inner loop of write_cfg over enumerate(runs), from position r (0-based)
RECURSIVE RunsLoop(_, _, _, _, _, _, _)
RunsLoop(runs, r, field, sid, ext, fs, acc) ==
    IF r >= Len(runs) THEN acc
    ELSE LET v == runs[r + 1]
             output == OutputName(sid, r, v, ext)
             outfile == OutFile(field, output)
             missing == outfile \notin fs
             acc2 == [torun |-> acc.torun \/ missing,
                      lines |-> IF missing
                                THEN Append(acc.lines, <<v, field, "nii", output>>)
                                ELSE acc.lines,
                      keep |-> acc.keep \cup {outfile}]
         IN RunsLoop(runs, r + 1, field, sid, ext, fs, acc2)

\* the outer loop of write_cfg over info.items(), from category number c
RECURSIVE CatsLoop(_, _, _, _, _)
CatsLoop(info, c, sid, ext, st) ==
    IF c > Len(CatOrder) \/ st.raised THEN st
    ELSE LET field == CatOrder[c]
             runs == info[field]
         IN IF runs = <<>>
            THEN CatsLoop(info, c + 1, sid, ext, st)
            ELSE LET a == RunsLoop(runs, 0, field, sid, ext, st.files,
                                   [torun |-> st.torun, lines |-> st.lines, keep |-> {}])
                 IN IF ext = NoneVal
                    \* '*' + None is a TypeError
                    THEN [st EXCEPT !.raised = TRUE, !.torun = a.torun, !.lines = a.lines]
                    ELSE CatsLoop(info, c + 1, sid, ext,
                                  [raised |-> FALSE, torun |-> a.torun, lines |-> a.lines,
                                   files |-> st.files \ (GlobExt(st.files, field, ext) \ a.keep)])

\* a write_cfg that always answers True
write_cfg_AlwaysTrue(info, sid, fs, ext) ==
    [CatsLoop(info, 1, sid, ext,
              [raised |-> FALSE, torun |-> FALSE, lines |-> <<>>, files |-> fs])
     EXCEPT !.torun = TRUE]

\* write_cfg(cfgfile, info, sid, tdir, ext): the result, the lines written to
\* cfgfile and the files left in tdir
write_cfg(info, sid, fs, ext) ==
    CatsLoop(info, 1, sid, ext,
             [raised |-> FALSE, torun |-> FALSE, lines |-> <<>>, files |-> fs])

(***************************************************************************)
(* The heuristics                                                          *)
(***************************************************************************)
\* infotodict without its raise statement: the template below it runs
infotodict_Fallthrough(sid) ==
    [raised |-> FALSE, info |-> [c \in Cats |-> IF c = "bold" THEN <<3>> ELSE <<>>],
     readsinfo |-> TRUE, probes |-> 1]

\* infotodict(sdir, dicominfofile), the built-in default: its first statement
\* raises, so np.genfromtxt (the read of the info file) and isMoco never run
infotodict(sid) ==
    [raised |-> TRUE, info |-> EmptyInfo, readsinfo |-> FALSE, probes |-> 0]

\* mod.infotodict of a heuristic file the user supplies with -f. The model has
\* two such files, written after the template of lines 80-98 (they read the
\* info file and return a mapping of categories to runs):
\*   "heurA" files run 3 under bold and run 5 under dwi, for every subject;
\*   "heurB" files run 5 under bold and nothing under dwi for subject 1, and
\*           raises for every other subject
UserHeuristics == {"heurA", "heurB"}
UserOutcome(heur, sid) ==
    IF heur = "heurA"
    THEN Returns([c \in Cats |-> IF c = "bold" THEN <<3>> ELSE <<5>>])
    ELSE IF sid = 1
         THEN Returns([c \in Cats |-> IF c = "bold" THEN <<5>> ELSE <<>>])
         ELSE Raises
UserHeuristic(heur, sid) ==
    LET r == UserOutcome(heur, sid)
    IN [raised |-> r.raises, info |-> r.info, readsinfo |-> TRUE, probes |-> 0]

\* lines 196-201 with a -f file that is taken for a heuristic whether it
\* exists or not
MainHeuristic_Unchecked(hfile) == IF hfile = "none" THEN NoneVal ELSE "heurA"

\* lines 196-201 of __main__: the heuristic is imported only when -f is given
\* and the file exists
MainHeuristic(hfile) == IF hfile \in UserHeuristics THEN hfile ELSE NoneVal

\* a default that is a working heuristic
HeuristicFunc_NoDefault(heur) == IF heur = NoneVal THEN "heurA" ELSE heur

\* lines 133-134: heuristic_func == None selects infotodict
HeuristicFunc(heur) == IF heur = NoneVal THEN "infotodict" ELSE heur

\* line 140: os.path.exists(editfile)
EditExists(sid) == edit[sid].exists

(***************************************************************************)
(* The unpacking utility                                                   *)
(***************************************************************************)
\* unpacksdcmdir -cfg cfgfile: one output per line "<run> <subdir> nii <name>"
Unpack(lines) == {OutFile(lines[i][2], lines[i][4]) : i \in 1..Len(lines)}

\* lines 148-154 without the queue: the unpack command itself, always
OutCmd_Direct(sid, queue) ==
    [tool |-> "unpacksdcmdir", src |-> sid, targ |-> sid, cfg |-> sid]

\* lines 148-154: the command handed to os.system
OutCmd(sid, queue) ==
    IF queue # NoneVal
    THEN [tool |-> "ezsub.py", name |-> sid, queue |-> queue,
          cmd |-> [tool |-> "unpacksdcmdir", src |-> sid, targ |-> sid, cfg |-> sid]]
    ELSE [tool |-> "unpacksdcmdir", src |-> sid, targ |-> sid, cfg |-> sid]

(***************************************************************************)
(* Initial state: a fresh output directory, no invocation running          *)
(***************************************************************************)
FreshDir ==
    /\ pc = "idle"
    /\ args = NoArgs
    /\ k = 0
    /\ ops = 0
    /\ tdir = [s \in Subjects |-> FALSE]
    /\ edit = [s \in Subjects |-> NoFile]
    /\ autotxt = [s \in Subjects |-> NoFile]
    /\ cfg = [s \in Subjects |-> NoCfg]
    /\ files = [s \in Subjects |-> {}]
    /\ lastsrc = [s \in Subjects |-> "none"]
    /\ log = <<>>
    /\ jobs = {}

Init == FreshDir /\ helper = NoHelper

(***************************************************************************)
(* The user, between invocations                                           *)
(***************************************************************************)
\* the user writes <s>.edit.txt (a copy of auto.txt, modified, or broken)
UserWriteEdit ==
    /\ pc = "idle" /\ ops < MaxOps /\ jobs = {}
    /\ \E s \in Subjects, c \in {JsonFile(i) : i \in Infos} \cup {Malformed} :
          /\ edit[s] # c
          /\ edit' = [edit EXCEPT ![s] = c]
          /\ tdir' = [tdir EXCEPT ![s] = TRUE]
    /\ ops' = ops + 1
    /\ UNCHANGED <<pc, args, k, autotxt, cfg, files, lastsrc, log, jobs, helper>>

\* the user deletes <s>.edit.txt
UserDeleteEdit ==
    /\ pc = "idle" /\ jobs = {}
    /\ \E s \in Subjects :
          /\ edit[s].exists
          /\ edit' = [edit EXCEPT ![s] = NoFile]
    /\ UNCHANGED <<pc, args, k, ops, tdir, autotxt, cfg,
                   files, lastsrc, log, jobs, helper>>

(***************************************************************************)
(* __main__ and get_dicom_info                                             *)
(***************************************************************************)
\* the command line: -s (one or more), -f, -i, -q; -x defaults to '.nii.gz'
StartCli ==
    /\ pc = "idle" /\ ops < MaxOps /\ jobs = {}
    /\ \E subjs \in SubjLists \ {<<>>}, hfile \in {"none", "missing"} \cup UserHeuristics,
          infoonly \in BOOLEAN, queue \in {NoneVal, "twocore"} :
          args' = [mode |-> "cli", subjs |-> subjs, hfile |-> hfile,
                   heur |-> MainHeuristic(hfile), infoonly |-> infoonly,
                   queue |-> queue, ext |-> NiiGz]
    /\ pc' = "info"
    /\ k' = 0
    /\ ops' = ops + 1
    /\ log' = <<>>
    /\ UNCHANGED <<tdir, edit, autotxt, cfg, files, lastsrc, jobs, helper>>

\* get_dicom_info for the next subject: the datasink creates <outdir>/<s> and
\* stores dicominfo.txt there
InfoStep ==
    /\ pc = "info" /\ k < Len(args.subjs)
    /\ LET s == args.subjs[k + 1]
       IN /\ tdir' = [tdir EXCEPT ![s] = TRUE]
          /\ log' = Append(log, [ev |-> "dicominfo", sid |-> s])
    /\ k' = k + 1
    /\ UNCHANGED <<pc, args, ops, edit, autotxt, cfg, files, lastsrc, jobs, helper>>

\* get_subjectdcmdir: glob(...)[0] of a subject without a DICOM directory
InfoRaise ==
    /\ pc = "info" /\ k < Len(args.subjs)
    /\ pc' = "raised"
    /\ log' = Append(log, [ev |-> "raise", sid |-> args.subjs[k + 1], what |-> "dicominfo"])
    /\ UNCHANGED <<args, k, ops, tdir, edit, autotxt,
                   cfg, files, lastsrc, jobs, helper>>

\* line 204 with -i: the tool stops after the info
InfoOnlyStop ==
    /\ pc = "info" /\ k = Len(args.subjs) /\ args.infoonly
    /\ pc' = "done"
    /\ UNCHANGED <<args, k, ops, tdir, edit, autotxt,
                   cfg, files, lastsrc, log, jobs, helper>>

\* line 204 without its test of args.infoonly
CallConvert_IgnoreFlag ==
    /\ pc = "info" /\ k = Len(args.subjs)
    /\ pc' = "convert"
    /\ k' = 0
    /\ log' = Append(log, [ev |-> "convert_dicoms", sid |-> 0])
    /\ UNCHANGED <<args, ops, tdir, edit, autotxt, cfg, files, lastsrc, jobs, helper>>

\* lines 204-209 without -i: convert_dicoms is called
CallConvert ==
    /\ pc = "info" /\ k = Len(args.subjs) /\ ~args.infoonly
    /\ pc' = "convert"
    /\ k' = 0
    /\ log' = Append(log, [ev |-> "convert_dicoms", sid |-> 0])
    /\ UNCHANGED <<args, ops, tdir, edit, autotxt,
                   cfg, files, lastsrc, jobs, helper>>

\* convert_dicoms called from other code: any subject list, heuristic_func and
\* extension default to None
StartCall ==
    /\ pc = "idle" /\ ops < MaxOps /\ jobs = {}
    /\ \E subjs \in SubjLists, heur \in {NoneVal} \cup UserHeuristics,
          queue \in {NoneVal, "twocore"}, ext \in {NoneVal, NiiGz} :
          args' = [mode |-> "call", subjs |-> subjs, hfile |-> "none",
                   heur |-> heur, infoonly |-> FALSE, queue |-> queue, ext |-> ext]
    /\ pc' = "convert"
    /\ k' = 0
    /\ ops' = ops + 1
    /\ log' = <<[ev |-> "convert_dicoms", sid |-> 0]>>
    /\ UNCHANGED <<tdir, edit, autotxt, cfg, files, lastsrc, jobs, helper>>

(***************************************************************************)
(* convert_dicoms: one action per outcome of one iteration of its loop     *)
(***************************************************************************)
\* the subject of the running iteration
Sid == args.subjs[k + 1]

InConvert == pc = "convert" /\ k < Len(args.subjs)

\* line 144: heuristic_func(sdir, dicominfofile)
CallHeuristic(s) ==
    IF HeuristicFunc(args.heur) = "infotodict"
    THEN infotodict(s) ELSE UserHeuristic(args.heur, s)

HeurEvent(s, h) ==
    [ev |-> "heuristic", sid |-> s, func |-> HeuristicFunc(args.heur),
     raised |-> h.raised, readsinfo |-> h.readsinfo, probes |-> h.probes]

\* lines 140-145 without the test for the edit file
GetInfo_IgnoreEdit(s) ==
    LET h == CallHeuristic(s)
    IN [raised |-> (h.raised \/ ~tdir[s]), info |-> h.info, src |-> "heuristic",
        saved |-> (~h.raised /\ tdir[s]),
        events |-> IF h.raised THEN <<HeurEvent(s, h)>>
                   ELSE <<HeurEvent(s, h), [ev |-> "save_json", sid |-> s, ok |-> tdir[s]]>>]

\* lines 140-145: where the info of subject s comes from, and what getting it
\* does (save_json fails when <outdir>/<s> does not exist)
GetInfo(s) ==
    IF EditExists(s)
    THEN [raised |-> ~edit[s].valid, info |-> edit[s].info, src |-> "edit",
          saved |-> FALSE, events |-> <<[ev |-> "load_json", sid |-> s]>>]
    ELSE LET h == CallHeuristic(s)
         IN [raised |-> (h.raised \/ ~tdir[s]), info |-> h.info, src |-> "heuristic",
             saved |-> (~h.raised /\ tdir[s]),
             events |-> IF h.raised THEN <<HeurEvent(s, h)>>
                        ELSE <<HeurEvent(s, h),
                               [ev |-> "save_json", sid |-> s, ok |-> tdir[s]]>>]

\* a loop that opens the cfg file of the subject before it gets the info
ConvertInfoRaise_CfgOpened ==
    /\ InConvert
    /\ LET g == GetInfo(Sid)
       IN /\ g.raised
          /\ log' = log \o g.events \o <<[ev |-> "raise", sid |-> Sid, what |-> g.src]>>
    /\ cfg' = [cfg EXCEPT ![Sid] = CfgFile(<<>>)]
    /\ pc' = "raised"
    /\ UNCHANGED <<args, k, ops, tdir, edit, autotxt,
                   files, lastsrc, jobs, helper>>

\* lines 140-145 raise: load_json of a broken edit file, the heuristic, or
\* save_json into a directory that does not exist
ConvertInfoRaise ==
    /\ InConvert
    /\ LET g == GetInfo(Sid)
       IN /\ g.raised
          /\ log' = log \o g.events \o <<[ev |-> "raise", sid |-> Sid, what |-> g.src]>>
    /\ pc' = "raised"
    /\ UNCHANGED <<args, k, ops, tdir, edit, autotxt,
                   cfg, files, lastsrc, jobs, helper>>

\* the files left by lines 140-147 when the info was obtained: g from GetInfo,
\* w from write_cfg
AfterWriteCfg(g, w) ==
    /\ autotxt' = IF g.saved THEN [autotxt EXCEPT ![Sid] = JsonFile(g.info)] ELSE autotxt
    /\ cfg' = [cfg EXCEPT ![Sid] = CfgFile(w.lines)]
    /\ files' = [files EXCEPT ![Sid] = w.files]
    /\ lastsrc' = [lastsrc EXCEPT ![Sid] = g.src]
    /\ UNCHANGED <<args, ops, tdir, edit, helper>>

WriteCfgEvent(g, w) ==
    [ev |-> "write_cfg", sid |-> Sid, info |-> g.info, src |-> g.src,
     prev |-> lastsrc[Sid], raised |-> w.raised, torun |-> w.torun]

SystemEvent == [ev |-> "system", sid |-> Sid, cmd |-> OutCmd(Sid, args.queue)]

\* line 147 raises inside write_cfg (the extension is None)
ConvertCfgRaise ==
    /\ InConvert
    /\ LET g == GetInfo(Sid)
           w == write_cfg(g.info, Sid, files[Sid], args.ext)
       IN /\ ~g.raised /\ w.raised
          /\ AfterWriteCfg(g, w)
          /\ log' = log \o g.events \o
                    <<WriteCfgEvent(g, w), [ev |-> "raise", sid |-> Sid, what |-> "write_cfg"]>>
    /\ pc' = "raised"
    /\ UNCHANGED <<k, jobs>>

\* line 147 without the test of write_cfg's result: the command is issued
ConvertNothing_Always ==
    /\ InConvert
    /\ LET g == GetInfo(Sid)
           w == write_cfg(g.info, Sid, files[Sid], args.ext)
       IN /\ ~g.raised /\ ~w.raised /\ ~w.torun
          /\ AfterWriteCfg(g, w)
          /\ log' = log \o g.events \o <<WriteCfgEvent(g, w), SystemEvent>>
    /\ k' = k + 1
    /\ UNCHANGED <<pc, jobs>>

\* line 147: write_cfg returned False, there is nothing to convert
ConvertNothing ==
    /\ InConvert
    /\ LET g == GetInfo(Sid)
           w == write_cfg(g.info, Sid, files[Sid], args.ext)
       IN /\ ~g.raised /\ ~w.raised /\ ~w.torun
          /\ AfterWriteCfg(g, w)
          /\ log' = log \o g.events \o <<WriteCfgEvent(g, w)>>
    /\ k' = k + 1
    /\ UNCHANGED <<pc, jobs>>

\* lines 147-155: write_cfg returned True; with a queue os.system runs
\* ezsub.py, which submits the unpack command as a batch job; without one it
\* runs unpacksdcmdir, which has converted the runs of the cfg file when
\* os.system returns
ConvertSystem ==
    /\ InConvert
    /\ LET g == GetInfo(Sid)
           w == write_cfg(g.info, Sid, files[Sid], args.ext)
       IN /\ ~g.raised /\ ~w.raised /\ w.torun
          /\ autotxt' = IF g.saved THEN [autotxt EXCEPT ![Sid] = JsonFile(g.info)]
                        ELSE autotxt
          /\ cfg' = [cfg EXCEPT ![Sid] = CfgFile(w.lines)]
          /\ files' = [files EXCEPT ![Sid] =
                          IF args.queue # NoneVal THEN w.files
                          ELSE w.files \cup Unpack(w.lines)]
          /\ lastsrc' = [lastsrc EXCEPT ![Sid] = g.src]
          /\ log' = log \o g.events \o <<WriteCfgEvent(g, w), SystemEvent>>
    /\ jobs' = IF args.queue # NoneVal THEN jobs \cup {Sid} ELSE jobs
    /\ k' = k + 1
    /\ UNCHANGED <<pc, args, ops, tdir, edit, helper>>

\* the loop of convert_dicoms is over
ConvertReturn ==
    /\ pc = "convert" /\ k = Len(args.subjs)
    /\ pc' = "done"
    /\ UNCHANGED <<args, k, ops, tdir, edit, autotxt,
                   cfg, files, lastsrc, log, jobs, helper>>

\* a submitted job runs unpacksdcmdir on the cfg file as it is by then
JobRun ==
    /\ \E s \in jobs :
          /\ jobs' = jobs \ {s}
          /\ files' = [files EXCEPT ![s] = @ \cup Unpack(cfg[s].lines)]
    /\ UNCHANGED <<pc, args, k, ops, tdir, edit,
                   autotxt, cfg, lastsrc, log, helper>>

\* the process ends, normally or by the uncaught exception
Exit ==
    /\ pc \in {"done", "raised"}
    /\ pc' = "idle"
    /\ args' = NoArgs
    /\ k' = 0
    /\ log' = <<>>
    /\ UNCHANGED <<ops, tdir, edit, autotxt, cfg,
                   files, lastsrc, jobs, helper>>

Next ==
    \/ UserWriteEdit \/ UserDeleteEdit
    \/ StartCli \/ InfoStep \/ InfoRaise \/ InfoOnlyStop \/ CallConvert
    \/ StartCall
    \/ ConvertInfoRaise \/ ConvertCfgRaise \/ ConvertNothing \/ ConvertSystem
    \/ ConvertReturn
    \/ JobRun \/ Exit

Spec == Init /\ [][Next]_vars

(***************************************************************************)
(* Properties of the conversion tool                                       *)
(***************************************************************************)
\* positions of the events of one kind about subject s in a log
Events(l, kind, s) == {i \in 1..Len(l) : l[i].ev = kind /\ l[i].sid = s}

\* the subjects the loop of convert_dicoms has finished with
Converted == IF pc \in {"convert", "done"} /\ ~(pc = "done" /\ args.infoonly)
             THEN {args.subjs[i] : i \in 1..k} ELSE {}

\* the outputs write_cfg expects for a mapping
Expected(info, sid, ext) ==
    UNION {{OutFile(c, OutputName(sid, r - 1, info[c][r], ext)) : r \in 1..Len(info[c])}
           : c \in Cats}

\* the unpack command of a command line, issued directly or through ezsub.py
UnpackCmd(c) == IF c.tool = "ezsub.py" THEN c.cmd ELSE c

\* C1: in every iteration of convert_dicoms, if <s>.edit.txt exists the cfg
\* file is built from the mapping loaded from it, the heuristic is not called
\* and no auto.txt changes; otherwise the heuristic is called and, when the
\* iteration gets to write_cfg, its result is what is saved to <s>.auto.txt and
\* what the cfg file is built from.
C1_EditPrecedence ==
    [][(InConvert /\ log' # log) =>
          LET s == Sid
              wc == Events(log', "write_cfg", s)
              used == IF edit[s].exists THEN edit[s].info
                      ELSE UserOutcome(args.heur, s).info
          IN /\ \A i \in wc :
                   /\ log'[i].info = used
                   /\ cfg'[s] = CfgFile(write_cfg(used, s, files[s], args.ext).lines)
             /\ IF edit[s].exists
                THEN /\ Events(log', "heuristic", s) = {}
                     /\ Events(log', "save_json", s) = {}
                     /\ autotxt' = autotxt
                ELSE /\ Events(log', "heuristic", s) # {}
                     /\ wc # {} => autotxt'[s] = JsonFile(used)]_vars

\* C1 witness: one run converted a subject from its edit file and another
\* from the heuristic's result
C1_Witness ==
    \E s1, s2 \in Subjects :
        /\ \E i \in Events(log, "write_cfg", s1) : log[i].src = "edit"
        /\ \E i \in Events(log, "write_cfg", s2) : log[i].src = "heuristic"
        /\ autotxt[s2].exists /\ ~autotxt[s1].exists

\* C2 (as claimed): a run with a non-empty subject list and no heuristic
\* function never ends normally.
C2_NoHeuristicNeverCompletes ==
    ~(pc = "done" /\ args.heur = NoneVal /\ Len(args.subjs) >= 1)

\* C2 (amended): in a run with no heuristic function, convert_dicoms gets past
\* a subject only if the subject has an edit file, and the default heuristic
\* is called, and raises, at the first listed subject that has none; a run
\* that ends normally was run with -i or found an edit file for every subject.
C2_RaisesAtFirstUnedited ==
    (args.mode # "none" /\ args.heur = NoneVal) =>
        /\ \A s \in Converted : edit[s].exists
        /\ pc = "done" => (args.infoonly \/ \A j \in 1..Len(args.subjs) :
                                               edit[args.subjs[j]].exists)
        /\ \A s \in Subjects :
              Events(log, "heuristic", s) # {} =>
                  /\ pc = "raised"
                  /\ ~edit[s].exists
                  /\ s = args.subjs[k + 1]
                  /\ \A j \in 1..k : edit[args.subjs[j]].exists

\* C2 witness: the default heuristic raised at the second subject, after the
\* first was converted from its edit file
C2_Witness ==
    /\ pc = "raised" /\ args.heur = NoneVal /\ k >= 1
    /\ Events(log, "heuristic", args.subjs[k + 1]) # {}
    /\ Events(log, "write_cfg", args.subjs[1]) # {}

\* C6 (as claimed): for every subject convert_dicoms has processed, the cfg
\* file is written and the unpack command was issued.
C6_AlwaysUnpacks ==
    \A s \in Converted : cfg[s].exists /\ Events(log, "system", s) # {}

\* C6 (amended): for every subject convert_dicoms has processed, the cfg file
\* is written, and the unpack command is issued (with that cfg file, directly
\* or through the batch tool) exactly when the cfg file lists a run to convert.
C6_UnpacksIffCfgLists ==
    \A s \in Converted :
        /\ cfg[s].exists
        /\ Events(log, "system", s) # {} <=> cfg[s].lines # <<>>
        /\ \A i \in Events(log, "system", s) :
              /\ UnpackCmd(log[i].cmd).tool = "unpacksdcmdir"
              /\ UnpackCmd(log[i].cmd).cfg = s

\* C6 witness: a finished run that issued the command for one subject and not
\* for another, whose outputs all existed
C6_Witness ==
    /\ pc = "done"
    /\ \E s1, s2 \in Converted :
          /\ Events(log, "system", s1) = {} /\ files[s1] # {}
          /\ Events(log, "system", s2) # {}

\* C7: with -i the tool extracts the DICOM info and stops: convert_dicoms is
\* not called, no heuristic is evaluated, no auto.txt or auto.cfg is written,
\* no output is removed and no command is issued; without -i, convert_dicoms
\* is called only after the info of every listed subject was extracted.
C7_InfoOnly ==
    [][/\ (args.infoonly /\ pc # "idle") =>
             /\ autotxt' = autotxt /\ cfg' = cfg /\ files' = files
             /\ edit' = edit /\ jobs' = jobs
             /\ pc' # "convert"
             /\ \A i \in 1..Len(log') : log'[i].ev = "dicominfo"
                                        \/ (log'[i].ev = "raise" /\ log'[i].what = "dicominfo")
       /\ args'.mode = "cli" =>
             \A p \in 1..Len(log') :
                IF log'[p].ev \in {"dicominfo"}
                THEN \A q \in 1..p : log'[q].ev = "dicominfo"
                ELSE \/ log'[p].ev = "raise" /\ log'[p].what = "dicominfo"
                     \/ /\ ~args'.infoonly
                        /\ \A j \in 1..Len(args'.subjs) :
                              \E q \in 1..(p - 1) : /\ log'[q].ev = "dicominfo"
                                                    /\ log'[q].sid = args'.subjs[j]]_vars

\* C7 witness: a run with -i ended after the info of two subjects, one of
\* which has an edit file
C7_Witness ==
    /\ pc = "done" /\ args.infoonly /\ Len(args.subjs) >= 2
    /\ \A j \in 1..Len(args.subjs) : Events(log, "dicominfo", args.subjs[j]) # {}
    /\ \E s \in Subjects : edit[s].exists

\* C8: whenever the default heuristic infotodict is called it raises: it
\* returns no mapping (nothing is saved, no cfg is written for the subject),
\* does not read the info file and does not probe for MoCo series, and the
\* run is over.
C8_DefaultRaises ==
    \A i \in 1..Len(log) :
        (log[i].ev = "heuristic" /\ log[i].func = "infotodict") =>
            /\ log[i].raised /\ ~log[i].readsinfo /\ log[i].probes = 0
            /\ pc = "raised"
            /\ i + 1 = Len(log) /\ log[i + 1].ev = "raise"
            /\ Events(log, "save_json", log[i].sid) = {}
            /\ Events(log, "write_cfg", log[i].sid) = {}

\* C8 witness: the default heuristic was called
C8_Witness ==
    \E i \in 1..Len(log) : log[i].ev = "heuristic" /\ log[i].func = "infotodict"

\* C9 (as claimed): when a subject whose previous conversion used its edit
\* file is converted again without the edit file (and the unpack command has
\* run), its output directory holds exactly the outputs of the heuristic's
\* mapping.
C9_RevertRestores ==
    \A i \in 1..Len(log) :
        (/\ log[i].ev = "write_cfg" /\ ~log[i].raised
         /\ log[i].src = "heuristic" /\ log[i].prev = "edit"
         /\ args.queue = NoneVal) =>
            files[log[i].sid] = Expected(log[i].info, log[i].sid, args.ext)

\* C10 (as claimed): after write_cfg has returned for a subject, every file
\* with the extension in the directory of a category of the mapping is an
\* expected output of that mapping, also for a category without runs.
C10_RemovesUnneeded ==
    \A i \in 1..Len(log) :
        (log[i].ev = "write_cfg" /\ ~log[i].raised) =>
            \A c \in Cats :
                GlobExt(files[log[i].sid], c, args.ext)
                    \subseteq Expected(log[i].info, log[i].sid, args.ext)

\* C11 (as claimed): when no extension is supplied (the command line without
\* -x, or convert_dicoms called without the extension argument), every output
\* name write_cfg writes to the cfg file ends in '.nii.gz'.
C11_DefaultExtension ==
    \A i \in 1..Len(log) :
        log[i].ev = "write_cfg" =>
            \A n \in 1..Len(cfg[log[i].sid].lines) :
                cfg[log[i].sid].lines[n][4].ext = NiiGz

\* C12 (as claimed): a run whose -f names a file that does not exist never
\* ends normally.
C12_MissingFileRaises ==
    ~(pc = "done" /\ args.mode = "cli" /\ args.hfile = "missing")

\* C12 (amended): a -f file that does not exist is ignored and the run goes
\* on as one without -f: the info is extracted, the only heuristic ever called
\* is the default, which raises, every subject convert_dicoms gets past is
\* converted from its edit file, and a run that ends normally was run with -i
\* or found a loadable edit file for every subject.
C12_MissingFileIgnored ==
    (args.mode = "cli" /\ args.hfile = "missing") =>
        /\ args.heur = NoneVal
        /\ \A i \in 1..Len(log) :
              /\ log[i].ev = "heuristic" => (log[i].func = "infotodict" /\ log[i].raised)
              /\ log[i].ev = "write_cfg" => log[i].src = "edit"
              /\ log[i].ev = "raise" => log[i].what \in {"dicominfo", "edit", "heuristic"}
        /\ pc \in {"convert", "done"} =>
              \A j \in 1..Len(args.subjs) : Events(log, "dicominfo", args.subjs[j]) # {}
        /\ pc = "done" => (args.infoonly \/ \A j \in 1..Len(args.subjs) :
                                               /\ edit[args.subjs[j]].valid
                                               /\ Events(log, "write_cfg", args.subjs[j]) # {})

\* C12 witness: a run with a -f file that does not exist converted two
\* subjects and ended normally; another raised in the default heuristic
C12_Witness ==
    /\ args.mode = "cli" /\ args.hfile = "missing" /\ ~args.infoonly
    /\ pc = "done" /\ Len(args.subjs) >= 2
    /\ \A j \in 1..Len(args.subjs) : Events(log, "system", args.subjs[j]) # {}

(***************************************************************************)
(* Part 2: the helpers of the workflow scripts.                            *)
(* Text is a sequence of characters; a Python value that may or may not be *)
(* a list is a record; a float with d decimals is [num, dec]: num / 10^dec. *)
(***************************************************************************)
\* flist in a list handed to a helper
MaxFiles == 3
\* runs in the statistics handed to getthreshop
MaxStatRuns == 2
\* decimals of the statistics
StatDecimals == 6
\* runs of a first-level model
MaxRuns == 2
\* contrasts of a first-level model
MaxCopes == 2
\* volumes (time points) of a functional run
MaxVols == 3

\* the outcome of a call
Ret(v) == [raised |-> FALSE, value |-> v]
IndexError(filler) == [raised |-> TRUE, value |-> filler]

\* sub in f, for two texts
Contains(f, sub) ==
    \E i \in 0..(Len(f) - Len(sub)) : SubSeq(f, i + 1, i + Len(sub)) = sub

\* the inner loop of orderfiles over flist, from position j
RECURSIVE orderfiles_inner(_, _, _, _)
orderfiles_inner(flist, j, s, outlist) ==
    IF j > Len(flist) THEN outlist
    ELSE orderfiles_inner(flist, j + 1, s,
                          IF Contains(flist[j], s \o <<"/">>)
                          THEN Append(outlist, flist[j]) ELSE outlist)

\* the outer loop of orderfiles over subj_list, from position i
RECURSIVE orderfiles_outer(_, _, _, _)
orderfiles_outer(flist, subj_list, i, outlist) ==
    IF i > Len(subj_list) THEN outlist
    ELSE orderfiles_outer(flist, subj_list, i + 1,
                          orderfiles_inner(flist, 1, subj_list[i], outlist))

\* gablab/level2surf.py: orderfiles(files, subj_list)
orderfiles(flist, subj_list) == orderfiles_outer(flist, subj_list, 1, <<>>)

\* gablab/level2vol.py: orderfiles(flist, subj_list), the same text
orderfiles_level2vol(flist, subj_list) == orderfiles_outer(flist, subj_list, 1, <<>>)

\* f.endswith(suffix)
EndsWith(f, suffix) ==
    Len(f) >= Len(suffix) /\ SubSeq(f, Len(f) - Len(suffix) + 1, Len(f)) = suffix

DatSuffix == <<"d", "a", "t">>

\* gablab/level2surf.py: ordersubjects(data), where fsys is the set of paths
\* for which os.path.exists answers True; the pairing raises an IndexError
\* when there are fewer ordered registration files than contrast files
ordersubjects(data, fsys) ==
    LET con_list == SelectSeq(data, LAMBDA f : f \in fsys /\ ~EndsWith(f, DatSuffix))
        reg_list == SelectSeq(data, LAMBDA f : f \in fsys /\ EndsWith(f, DatSuffix))
        subj_list == SelectSeq(data, LAMBDA f : f \notin fsys)
        ordered_subj == orderfiles(con_list, subj_list)
        ordered_reg == orderfiles(reg_list, subj_list)
    IN IF Len(ordered_reg) < Len(ordered_subj) THEN IndexError(<<>>)
       ELSE Ret([i \in 1..Len(ordered_subj) |-> <<ordered_subj[i], ordered_reg[i]>>])

\* gablab/level2vol.py: ordersubjects(data) of create_l2fsflow
ordersubjects_l2fsflow(data, fsys) ==
    LET con_list == SelectSeq(data, LAMBDA f : f \in fsys)
        subj_list == SelectSeq(data, LAMBDA f : f \notin fsys)
    IN Ret(orderfiles_level2vol(con_list, subj_list))

\* an ordersubjects that also takes an element that does not exist for a file
\* when it is not a subject id and some other path exists
ordersubjects_AnyPath(data, fsys) ==
    LET IsFile(f) == f \in fsys \/ (f[1] = "/" /\ fsys # {})
        file_list == SelectSeq(data, IsFile)
        subj_list == SelectSeq(data, LAMBDA f : ~IsFile(f))
    IN Ret(orderfiles_level2vol(file_list, subj_list))

\* gablab/level2vol.py: ordersubjects(data) of create_l2fslflow
ordersubjects_l2fslflow(data, fsys) ==
    LET file_list == SelectSeq(data, LAMBDA f : f \in fsys)
        subj_list == SelectSeq(data, LAMBDA f : f \notin fsys)
    IN Ret(orderfiles_level2vol(file_list, subj_list))

\* a Python value: not a list, or a list of such values' names
PyAtom(x) == [islist |-> FALSE, val |-> x, items |-> <<>>]
PyList(q) == [islist |-> TRUE, val |-> "", items |-> q]

\* a pickfirst that answers None for an empty list
pickfirst_Guarded(flist) ==
    IF flist.islist
    THEN IF Len(flist.items) = 0 THEN Ret(PyAtom("None")) ELSE Ret(PyAtom(flist.items[1]))
    ELSE Ret(flist)

\* gablab/fsl_flow.py: pickfirst(files)
pickfirst_fsl_flow(flist) ==
    IF flist.islist
    THEN IF Len(flist.items) = 0 THEN IndexError(PyAtom("")) ELSE Ret(PyAtom(flist.items[1]))
    ELSE Ret(flist)

\* gablab/preproc_schemes.py: pickfirst(files)
pickfirst_preproc_schemes(flist) ==
    IF flist.islist
    THEN IF Len(flist.items) = 0 THEN IndexError(PyAtom("")) ELSE Ret(PyAtom(flist.items[1]))
    ELSE Ret(flist)

\* the last file instead of the first
pickfirst_Last(flist) ==
    IF flist.islist
    THEN IF Len(flist.items) = 0 THEN IndexError(PyAtom(""))
         ELSE Ret(PyAtom(flist.items[Len(flist.items)]))
    ELSE Ret(flist)

\* nklab/emf_func_flow.py: pickfirst(files)
pickfirst_emf_func_flow(flist) ==
    IF flist.islist
    THEN IF Len(flist.items) = 0 THEN IndexError(PyAtom("")) ELSE Ret(PyAtom(flist.items[1]))
    ELSE Ret(flist)

RECURSIVE Pow10(_)
Pow10(n) == IF n = 0 THEN 1 ELSE 10 * Pow10(n - 1)

Abs(x) == IF x < 0 THEN -x ELSE x

DigitChar(d) == <<"0", "1", "2", "3", "4", "5", "6", "7", "8", "9">>[d + 1]

RECURSIVE IntDigits(_)
IntDigits(n) ==
    IF n < 10 THEN <<DigitChar(n)>> ELSE Append(IntDigits(n \div 10), DigitChar(n % 10))

\* 0.1 * x
TimesTenth(x) == [num |-> x.num, dec |-> x.dec + 1]

\* '%.10f' % x, for x of at most 10 decimals: sign, integer part, point, and
\* ten decimals
FormatF10(x) ==
    LET m == Abs(x.num)
        ip == m \div Pow10(x.dec)
        fr == m % Pow10(x.dec)
    IN (IF x.num < 0 THEN <<"-">> ELSE <<>>)
       \o IntDigits(ip) \o <<".">>
       \o [i \in 1..10 |-> IF i <= x.dec
                           THEN DigitChar((fr \div Pow10(x.dec - i)) % 10) ELSE "0"]

ThrPrefix == <<"-", "t", "h", "r", " ">>
ThrSuffix == <<" ", "-", "T", "m", "i", "n", " ", "-", "b", "i", "n">>

\* gablab/preproc_schemes.py: getthreshop(thresh), the same text as below
getthreshop_preproc_schemes(thresh) ==
    IF Len(thresh) = 0 THEN IndexError(<<>>)
    ELSE Ret(ThrPrefix \o FormatF10(TimesTenth(thresh[1][2])) \o ThrSuffix)

\* the first statistic of the first run instead of thresh[0][1]
getthreshop_FirstStat(thresh) ==
    IF Len(thresh) = 0 THEN IndexError(<<>>)
    ELSE Ret(ThrPrefix \o FormatF10(TimesTenth(thresh[1][1])) \o ThrSuffix)

\* gablab/fsl_flow.py:
\* getthreshop(thresh) = '-thr %.10f -Tmin -bin' % (0.1 * thresh[0][1])
getthreshop(thresh) ==
    IF Len(thresh) = 0 THEN IndexError(<<>>)
    ELSE Ret(ThrPrefix \o FormatF10(TimesTenth(thresh[1][2])) \o ThrSuffix)

\* the loop "for j, elements in enumerate(files)" of sort_copes, from run j,
\* for contrast i (0-based): outfiles[i].append(elements[i])
RECURSIVE sort_copes_inner(_, _, _, _)
sort_copes_inner(flist, i, j, row) ==
    IF j > Len(flist) THEN Ret(row)
    ELSE IF i + 1 > Len(flist[j]) THEN IndexError(<<>>)
         ELSE sort_copes_inner(flist, i, j + 1, Append(row, flist[j][i + 1]))

\* the loop "for i in range(numelements)" of sort_copes, from contrast i:
\* outfiles.insert(i, []) adds a new last list, which the inner loop fills
RECURSIVE sort_copes_outer(_, _, _, _)
sort_copes_outer(flist, numelements, i, outfiles) ==
    IF i >= numelements THEN Ret(outfiles)
    ELSE LET row == sort_copes_inner(flist, i, 1, <<>>)
         IN IF row.raised THEN IndexError(<<>>)
            ELSE sort_copes_outer(flist, numelements, i + 1, Append(outfiles, row.value))

\* nklab/emf_func_flow.py: sort_copes(files), the same text as below
sort_copes_emf_func_flow(flist) ==
    IF Len(flist) = 0 THEN IndexError(<<>>)
    ELSE sort_copes_outer(flist, Len(flist[1]), 0, <<>>)

\* a sort_copes that hands back the lists as they came
sort_copes_Untransposed(flist) ==
    IF Len(flist) = 0 THEN IndexError(<<>>) ELSE Ret(flist)

\* gablab/fsl_flow.py: sort_copes(files); len(files[0]) of an empty list is
\* an IndexError
sort_copes(flist) ==
    IF Len(flist) = 0 THEN IndexError(<<>>)
    ELSE sort_copes_outer(flist, Len(flist[1]), 0, <<>>)

\* 0.75 * x
TimesThreeQuarters(x) == [num |-> 75 * x.num, dec |-> x.dec + 2]

\* gablab/fsl_flow.py: getbtthresh(medianvals) = [0.75*val for val in medianvals]
getbtthresh(medianvals) ==
    Ret([i \in 1..Len(medianvals) |-> TimesThreeQuarters(medianvals[i])])

\* gablab/preproc_schemes.py: getbtthresh(medianvals) of create_featpreproc
getbtthresh_preproc_schemes(medianvals) ==
    Ret([i \in 1..Len(medianvals) |-> TimesThreeQuarters(medianvals[i])])

\* nklab/emf_func_flow.py: getbtthresh(medianvals)
getbtthresh_emf_func_flow(medianvals) ==
    Ret([i \in 1..Len(medianvals) |-> TimesThreeQuarters(medianvals[i])])

\* mergenode, Merge(2, axis='hstack'): the i-th output is the pair of the i-th
\* mean image and the i-th median
MergeOut(mean_files, medianvals) ==
    [i \in 1..Len(mean_files) |-> <<mean_files[i], medianvals[i]>>]

\* a usans transform that hands on the median as it is
getusanval_Unscaled(intuples) ==
    Ret([i \in 1..Len(intuples) |-> << <<intuples[i][1], intuples[i][2]>> >>])

\* gablab/fsl_flow.py: getusanval(intuples) =
\* [[tuple([val[0], 0.75*val[1]])] for val in intuples]
getusanval(intuples) ==
    Ret([i \in 1..Len(intuples) |->
            << <<intuples[i][1], TimesThreeQuarters(intuples[i][2])>> >>])

\* gablab/preproc_schemes.py: lambda x: [[tuple([val[0],0.75*val[1]])] for val in x]
usans_preproc_schemes(x) ==
    Ret([i \in 1..Len(x) |-> << <<x[i][1], TimesThreeQuarters(x[i][2])>> >>])

\* nklab/emf_func_flow.py: lambda x: [[tuple([val[0],0.75*val[1]])] for val in x]
usans_emf_func_flow(x) ==
    Ret([i \in 1..Len(x) |-> << <<x[i][1], TimesThreeQuarters(x[i][2])>> >>])

\* the digits of a natural number, as numbers
RECURSIVE DigitVals(_)
DigitVals(n) == IF n < 10 THEN <<n>> ELSE Append(DigitVals(n \div 10), n % 10)

\* long division: the next `places` decimals of r / d, for r < d
RECURSIVE FracDigitVals(_, _, _)
FracDigitVals(r, d, places) ==
    IF places = 0 THEN <<>>
    ELSE <<(10 * r) \div d>> \o FracDigitVals((10 * r) % d, d, places - 1)

\* what is left of r / d after `places` decimals
RECURSIVE FracRemainder(_, _, _)
FracRemainder(r, d, places) ==
    IF places = 0 THEN r ELSE FracRemainder((10 * r) % d, d, places - 1)

\* a digit list plus one in its last place
RECURSIVE PlusOne(_)
PlusOne(ds) ==
    IF Len(ds) = 0 THEN <<1>>
    ELSE IF ds[Len(ds)] < 9 THEN [ds EXCEPT ![Len(ds)] = @ + 1]
         ELSE Append(PlusOne(SubSeq(ds, 1, Len(ds) - 1)), 0)

\* '%.10f' % (n / d) for naturals n and d > 0: the quotient rounded to ten
\* decimals (the medians of the model have no quotient that ends in a 5 at
\* the eleventh decimal)
FormatQuotient10(n, d) ==
    LET cut == DigitVals(n \div d) \o FracDigitVals(n % d, d, 10)
        ds == IF 2 * FracRemainder(n % d, d, 10) >= d THEN PlusOne(cut) ELSE cut
    IN [i \in 1..(Len(ds) - 10) |-> DigitChar(ds[i])] \o <<".">>
       \o [i \in 1..10 |-> DigitChar(ds[Len(ds) - 10 + i])]

MulPrefix == <<"-", "m", "u", "l", " ">>

\* a scaling operation that cuts the quotient after ten decimals and leaves a
\* run with median 0 unscaled
MeanScaleOp_Truncated(val) ==
    IF val.num = 0 THEN Ret(MulPrefix \o <<"1", ".">> \o [i \in 1..10 |-> "0"])
    ELSE LET n == 10000 * Pow10(val.dec)
             ds == DigitVals(n \div val.num) \o FracDigitVals(n % val.num, val.num, 10)
         IN Ret(MulPrefix \o [i \in 1..(Len(ds) - 10) |-> DigitChar(ds[i])] \o <<".">>
                \o [i \in 1..10 |-> DigitChar(ds[Len(ds) - 10 + i])])

\* '-mul %.10f' % (10000./val): 10000./0 is a ZeroDivisionError
MeanScaleOp(val) ==
    IF val.num = 0 THEN [raised |-> TRUE, value |-> <<>>]
    ELSE Ret(MulPrefix \o FormatQuotient10(10000 * Pow10(val.dec), val.num))

\* gablab/fsl_flow.py: getmeanscale(medianvals) =
\* ['-mul %.10f'%(10000./val) for val in medianvals]
getmeanscale(medianvals) ==
    IF \E i \in 1..Len(medianvals) : MeanScaleOp(medianvals[i]).raised
    THEN [raised |-> TRUE, value |-> <<>>]
    ELSE Ret([i \in 1..Len(medianvals) |-> MeanScaleOp(medianvals[i]).value])

\* gablab/preproc_schemes.py: getmeanscale(medianvals) of create_featpreproc
getmeanscale_preproc_schemes(medianvals) ==
    IF \E i \in 1..Len(medianvals) : MeanScaleOp(medianvals[i]).raised
    THEN [raised |-> TRUE, value |-> <<>>]
    ELSE Ret([i \in 1..Len(medianvals) |-> MeanScaleOp(medianvals[i]).value])

\* x < 1
LessThanOne(x) == x.num < Pow10(x.dec)

\* gablab/preproc_schemes.py: chooseindex(fwhm)
chooseindex_preproc_schemes(fwhm) == IF LessThanOne(fwhm) THEN <<0>> ELSE <<1>>

\* nklab/emf_func_flow.py: chooseindex(fwhm)
chooseindex_emf_func_flow(fwhm) == IF LessThanOne(fwhm) THEN <<0>> ELSE <<1>>

\* a chooseindex with its two answers exchanged
chooseindex_Swapped(fwhm) == IF LessThanOne(fwhm) THEN <<1>> ELSE <<0>>

\* gablab/fsl_flow.py: chooseindex(fwhm)
chooseindex(fwhm) == IF LessThanOne(fwhm) THEN <<0>> ELSE <<1>>

\* the masked runs that maskfunc2 (unsmoothed) and maskfunc3 (smoothed by
\* SUSAN) put out for n runs
MaskFunc2Out(n) == [r \in 1..n |-> [run |-> r, smoothed |-> FALSE]]
MaskFunc3Out(n) == [r \in 1..n |-> [run |-> r, smoothed |-> TRUE]]

\* the concat node, util.Merge(2), fed through "lambda x: [x]": in1 then in2
ConcatOut(n) == <<MaskFunc2Out(n)>> \o <<MaskFunc3Out(n)>>

\* the select node, util.Select: the elements of inlist at the (0-based)
\* positions of index; an output list of one element is that element
SelectOut(inlist, index) ==
    LET picked == [i \in 1..Len(index) |-> inlist[index[i] + 1]]
    IN IF Len(picked) = 1 THEN picked[1] ELSE picked

\* fsl.ExtractROI(t_size=1, t_min=0): the arguments of the extractref node
t_min == 0
t_size == 1

\* the runs img2float puts out: run r with its number of volumes
Img2FloatOut(nvols) == [r \in 1..Len(nvols) |-> [run |-> r, nvols |-> nvols[r]]]

\* gablab/fsl_flow.py: the extractref node, fed pickfirst of img2float's
\* output: the t_size volumes from time index t_min on
extract_ref(img2float_out) ==
    LET in_file == pickfirst_fsl_flow(PyList(img2float_out)).value.val
    IN [run |-> in_file.run,
        vols |-> {v \in t_min..(t_min + t_size - 1) : v < in_file.nvols}]

\* nklab/emf_func_flow.py: the extractref node, the same text
extract_ref_emf_func_flow(img2float_out) ==
    LET in_file == pickfirst_emf_func_flow(PyList(img2float_out)).value.val
    IN [run |-> in_file.run,
        vols |-> {v \in t_min..(t_min + t_size - 1) : v < in_file.nvols}]

\* the realign node, fsl.MCFLIRT over the runs with ref_file from extractref
motion_correct(img2float_out, roi_file) ==
    [r \in 1..Len(img2float_out) |-> [run |-> img2float_out[r].run, ref_file |-> roi_file]]

(***************************************************************************)
(* The workflow graphs: an edge <<a, b>> is a connection from an output of  *)
(* node a to an input of node b; nodes carry the names given to pe.Node     *)
(***************************************************************************)
\* the preproc workflow with an output of highpass connected back to img2float
PreprocEdges_Cyclic ==
    {<<"inputspec", "img2float">>, <<"img2float", "extractref">>,
     <<"img2float", "realign">>, <<"extractref", "realign">>,
     <<"realign", "plot_motion">>, <<"realign", "meanfunc">>,
     <<"meanfunc", "meanfuncmask">>, <<"realign", "maskfunc">>,
     <<"meanfuncmask", "maskfunc">>, <<"maskfunc", "getthreshold">>,
     <<"maskfunc", "threshold">>, <<"getthreshold", "threshold">>,
     <<"realign", "medianval">>, <<"threshold", "medianval">>,
     <<"threshold", "dilatemask">>, <<"realign", "maskfunc2">>,
     <<"dilatemask", "maskfunc2">>, <<"maskfunc2", "meanfunc2">>,
     <<"meanfunc2", "merge">>, <<"medianval", "merge">>, <<"smoothval", "smooth">>,
     <<"maskfunc2", "smooth">>, <<"medianval", "smooth">>, <<"merge", "smooth">>,
     <<"smooth", "maskfunc3">>, <<"dilatemask", "maskfunc3">>,
     <<"maskfunc2", "concat">>, <<"maskfunc3", "concat">>, <<"concat", "select">>,
     <<"smoothval", "select">>, <<"select", "meanscale">>,
     <<"medianval", "meanscale">>, <<"meanscale", "highpass">>,
     <<"highpass", "meanfunc3">>, <<"inputspec", "surfregister">>,
     <<"meanfunc2", "surfregister">>, <<"realign", "art">>, <<"maskfunc2", "art">>,
     <<"dilatemask", "art">>, <<"inputspec", "fssource">>,
     <<"fssource", "warpbrainmask">>, <<"surfregister", "warpbrainmask">>,
     <<"meanfunc2", "warpbrainmask">>, <<"warpbrainmask", "convert2nii">>,
     <<"highpass", "img2float">>}

\* gablab/fsl_flow.py: the connections of the preproc workflow
PreprocEdges ==
    {<<"inputspec", "img2float">>, <<"img2float", "extractref">>,
     <<"img2float", "realign">>, <<"extractref", "realign">>,
     <<"realign", "plot_motion">>, <<"realign", "meanfunc">>,
     <<"meanfunc", "meanfuncmask">>, <<"realign", "maskfunc">>,
     <<"meanfuncmask", "maskfunc">>, <<"maskfunc", "getthreshold">>,
     <<"maskfunc", "threshold">>, <<"getthreshold", "threshold">>,
     <<"realign", "medianval">>, <<"threshold", "medianval">>,
     <<"threshold", "dilatemask">>, <<"realign", "maskfunc2">>,
     <<"dilatemask", "maskfunc2">>, <<"maskfunc2", "meanfunc2">>,
     <<"meanfunc2", "merge">>, <<"medianval", "merge">>, <<"smoothval", "smooth">>,
     <<"maskfunc2", "smooth">>, <<"medianval", "smooth">>, <<"merge", "smooth">>,
     <<"smooth", "maskfunc3">>, <<"dilatemask", "maskfunc3">>,
     <<"maskfunc2", "concat">>, <<"maskfunc3", "concat">>, <<"concat", "select">>,
     <<"smoothval", "select">>, <<"select", "meanscale">>,
     <<"medianval", "meanscale">>, <<"meanscale", "highpass">>,
     <<"highpass", "meanfunc3">>, <<"inputspec", "surfregister">>,
     <<"meanfunc2", "surfregister">>, <<"realign", "art">>, <<"maskfunc2", "art">>,
     <<"dilatemask", "art">>, <<"inputspec", "fssource">>,
     <<"fssource", "warpbrainmask">>, <<"surfregister", "warpbrainmask">>,
     <<"meanfunc2", "warpbrainmask">>, <<"warpbrainmask", "convert2nii">>}

\* gablab/preproc_schemes.py: the connections made by create_featpreproc
FeatPreprocEdges ==
    {<<"inputspec", "datasink">>, <<"inputspec", "img2float">>,
     <<"img2float", "extractref">>, <<"extractref", "datasink">>,
     <<"img2float", "realign">>, <<"extractref", "realign">>,
     <<"realign", "datasink">>, <<"realign", "plot_motion">>,
     <<"plot_motion", "datasink">>, <<"realign", "meanfunc">>,
     <<"meanfunc", "meanfuncmask">>, <<"realign", "maskfunc">>,
     <<"meanfuncmask", "maskfunc">>, <<"maskfunc", "getthreshold">>,
     <<"maskfunc", "threshold">>, <<"getthreshold", "threshold">>,
     <<"realign", "medianval">>, <<"threshold", "medianval">>,
     <<"threshold", "dilatemask">>, <<"dilatemask", "datasink">>,
     <<"realign", "maskfunc2">>, <<"dilatemask", "maskfunc2">>,
     <<"maskfunc2", "meanfunc2">>, <<"meanfunc2", "merge">>, <<"medianval", "merge">>,
     <<"inputspec", "smooth">>, <<"maskfunc2", "smooth">>, <<"medianval", "smooth">>,
     <<"merge", "smooth">>, <<"smooth", "maskfunc3">>, <<"dilatemask", "maskfunc3">>,
     <<"maskfunc2", "concat">>, <<"maskfunc3", "concat">>, <<"concat", "select">>,
     <<"inputspec", "select">>, <<"select", "datasink">>, <<"select", "meanscale">>,
     <<"medianval", "meanscale">>, <<"inputspec", "highpass">>,
     <<"meanscale", "highpass">>, <<"highpass", "datasink">>,
     <<"highpass", "meanfunc3">>, <<"meanfunc3", "datasink">>}

\* nklab/emf_func_flow.py: the connections of the preproc workflow
EmfPreprocEdges ==
    {<<"inputspec", "img2float">>, <<"img2float", "extractref">>,
     <<"img2float", "realign">>, <<"extractref", "realign">>,
     <<"realign", "meanfunc">>, <<"meanfunc", "meanfuncmask">>,
     <<"realign", "maskfunc">>, <<"meanfuncmask", "maskfunc">>,
     <<"maskfunc", "getthreshold">>, <<"maskfunc", "threshold">>,
     <<"getthreshold", "threshold">>, <<"realign", "medianval">>,
     <<"threshold", "medianval">>, <<"threshold", "dilatemask">>,
     <<"realign", "maskfunc2">>, <<"dilatemask", "maskfunc2">>,
     <<"maskfunc2", "meanfunc2">>, <<"meanfunc2", "merge">>, <<"medianval", "merge">>,
     <<"smoothval", "smooth">>, <<"maskfunc2", "smooth">>, <<"medianval", "smooth">>,
     <<"merge", "smooth">>, <<"smooth", "maskfunc3">>, <<"dilatemask", "maskfunc3">>,
     <<"maskfunc2", "concat">>, <<"maskfunc3", "concat">>, <<"concat", "select">>,
     <<"smoothval", "select">>, <<"select", "meanscale">>,
     <<"medianval", "meanscale">>, <<"meanscale", "highpass">>,
     <<"highpass", "meanfunc3">>, <<"inputspec", "surfregister">>,
     <<"meanfunc2", "surfregister">>, <<"realign", "art">>, <<"maskfunc2", "art">>,
     <<"dilatemask", "art">>}

\* gablab/fsl_flow.py: the connections of the normalize workflow
NormalizeEdges ==
    {<<"niftimask", "regstruct">>, <<"niftit1", "fnirt">>, <<"regstruct", "fnirt">>,
     <<"regstruct", "matconcat">>}

\* gablab/fsl_flow.py: the connections of the modelfit workflow
ModelfitEdges ==
    {<<"modelspec", "level1design">>, <<"level1design", "modelgen">>,
     <<"modelgen", "modelestimate">>, <<"modelgen", "conestimate">>,
     <<"modelestimate", "conestimate">>, <<"conestimate", "ztop">>,
     <<"modelestimate", "mergedestimate">>, <<"conestimate", "mergedestimate">>}

\* gablab/fsl_flow.py: the connection of the overlay workflow
OverlayEdges ==
    {<<"overlaystats", "slicestats">>}

\* gablab/fsl_flow.py: the connections l1pipeline makes between the nodes of
\* its workflows (applynorm has the nodes warpfunc and funcxfm, unconnected)
L1PipelineEdges ==
    {<<"inputnode", "inputspec">>, <<"inputnode", "modelspec">>,
     <<"inputnode", "level1design">>, <<"fssource", "niftimask">>,
     <<"fssource", "niftit1">>, <<"surfregister", "matconcat">>,
     <<"highpass", "modelspec">>, <<"highpass", "modelestimate">>,
     <<"realign", "modelspec">>, <<"art", "modelspec">>, <<"fnirt", "warpfunc">>,
     <<"matconcat", "funcxfm">>, <<"surfregister", "warpfunc">>,
     <<"mergedestimate", "warpfunc">>, <<"mergedestimate", "funcxfm">>,
     <<"convert2nii", "overlaystats">>, <<"conestimate", "overlaystats">>}

\* the graphs an execution runs: a workflow with the workflows it contains
Workflows ==
    [preproc |-> PreprocEdges,
     emfpreproc |-> EmfPreprocEdges,
     featpreproc |-> FeatPreprocEdges,
     modelfit |-> ModelfitEdges,
     firstlevel |-> PreprocEdges \cup NormalizeEdges \cup ModelfitEdges
                    \cup OverlayEdges \cup L1PipelineEdges]

NodesOf(edges) == {e[1] : e \in edges} \cup {e[2] : e \in edges}

\* the nodes that feed an input of node n
Feeding(edges, n) == {e[1] : e \in {d \in edges : d[2] = n}}

\* highpass = pe.MapNode(interface=fsl.ImageMaths(suffix='_tempfilt'), ...):
\* the inputs of the highpass node that its constructor sets
HighpassConstructor == {"suffix"}

\* the inputs of the highpass node that a connection of the graph supplies:
\* meanscale.out_file in every graph, and in create_featpreproc also
\* inputspec.highpass through lambda x: '-bptf %.10f -1' % x
HighpassConnected ==
    [preproc |-> {"in_file"},
     emfpreproc |-> {"in_file"},
     featpreproc |-> {"op_string", "in_file"},
     modelfit |-> {},
     firstlevel |-> {"in_file"}]

\* the operation the highpass node of a graph applies to its in_file: the
\* filter when op_string is set, and none when it is left undefined
HighpassOperation(graph) ==
    IF "op_string" \in HighpassConstructor \cup HighpassConnected[graph]
    THEN "-bptf" ELSE "none"

(***************************************************************************)
(* Inputs of the helpers                                                   *)
(***************************************************************************)
\* subject ids; one is the end of another
SubjIds == {<<"b">>, <<"a", "b">>, <<"c">>}
\* <dir>/<subject>/<file>
Path(id, leaf) == <<"/">> \o id \o <<"/">> \o leaf
Paths == {Path(id, leaf) : id \in SubjIds, leaf \in {<<"x">>, <<"y">>}}

SeqsUpTo(S, n) == UNION {[1..m -> S] : m \in 0..n}

\* the lists without a repeated element
DistinctSeqs(S, n) ==
    {q \in SeqsUpTo(S, n) : \A i, j \in 1..Len(q) : i # j => q[i] # q[j]}

\* what the merge node hands to ordersubjects: subject ids, contrast files
\* and registration files
DataSubjIds == {<<"b">>, <<"a", "b">>}
DataItems == DataSubjIds
             \cup {Path(id, <<"x">>) : id \in DataSubjIds}
             \cup {Path(id, <<"r", ".", "d", "a", "t">>) : id \in DataSubjIds}
\* smoothing kernel widths: -1, 0, 0.5, 0.9, 1, 1.1, 6
FwhmNums == {-10, 0, 5, 9, 10, 11, 60}
Fwhms == {[num |-> n, dec |-> 1] : n \in FwhmNums}
FileNames == {"run1.nii", "run2.nii", "run3.nii"}
\* the cope files of a model estimate
CopeNames == {"cope1", "cope2"}
\* median intensities of a run, with one decimal: 0, 0.3, 0.6, 0.8, 2.5, 1600
MedianNums == {0, 3, 6, 8, 25, 16000}
Medians == {[num |-> n, dec |-> 1] : n \in MedianNums}
\* the mean functional images of the runs
MeanFiles == {"mean1.nii", "mean2.nii"}
StatNums == {0, 5, 1234567, 98765432, -1500000}
Stats == {[num |-> n, dec |-> StatDecimals] : n \in StatNums}

\* every helper starts with one argument list drawn from the inputs above
InitHelpers ==
    /\ FreshDir
    /\ helper \in
        {[fn |-> "orderfiles", done |-> FALSE, input |-> [files |-> f, subj_list |-> s]] :
            f \in DistinctSeqs(Paths, MaxFiles),
            s \in DistinctSeqs(SubjIds, Cardinality(SubjIds))}
        \cup {[fn |-> "pickfirst", done |-> FALSE, input |-> v] :
                 v \in {PyAtom(x) : x \in FileNames}
                       \cup {PyList(q) : q \in SeqsUpTo(FileNames, MaxFiles)}}
        \cup {[fn |-> "getthreshop", done |-> FALSE, input |-> th] :
                 th \in SeqsUpTo(Stats \X Stats, MaxStatRuns)}
        \cup {[fn |-> "ordersubjects", done |-> FALSE, input |-> [data |-> d, fsys |-> e]] :
                 d \in DistinctSeqs(DataItems, MaxFiles), e \in SUBSET DataItems}
        \cup {[fn |-> "select", done |-> FALSE, input |-> [fwhm |-> w, nruns |-> n]] :
                 w \in Fwhms, n \in 1..MaxRuns}
        \cup {[fn |-> "extractref", done |-> FALSE, input |-> nv] :
                 nv \in SeqsUpTo(1..MaxVols, MaxRuns) \ {<<>>}}
        \cup {[fn |-> "sort_copes", done |-> FALSE, input |-> f] :
                 f \in SeqsUpTo(SeqsUpTo(CopeNames, MaxCopes), MaxRuns)}
        \cup {[fn |-> fn, done |-> FALSE, input |-> mv] :
                 fn \in {"getbtthresh", "getmeanscale"},
                 mv \in SeqsUpTo(Medians, MaxStatRuns)}
        \cup UNION {{[fn |-> "getusanval", done |-> FALSE, input |-> MergeOut(mf, mv)] :
                        mf \in [1..n -> MeanFiles], mv \in [1..n -> Medians]} :
                    n \in 0..MaxStatRuns}

Call_orderfiles ==
    /\ helper.fn = "orderfiles" /\ ~helper.done
    /\ \E copy \in {"level2surf", "level2vol"} :
          helper' = [fn |-> helper.fn, done |-> TRUE, input |-> helper.input,
                     result |-> IF copy = "level2surf"
                                THEN orderfiles(helper.input.files, helper.input.subj_list)
                                ELSE orderfiles_level2vol(helper.input.files,
                                                          helper.input.subj_list)]
    /\ UNCHANGED toolvars

Call_pickfirst ==
    /\ helper.fn = "pickfirst" /\ ~helper.done
    /\ helper' = [fn |-> helper.fn, done |-> TRUE, input |-> helper.input,
                  result |-> [fsl_flow |-> pickfirst_fsl_flow(helper.input),
                              preproc_schemes |-> pickfirst_preproc_schemes(helper.input),
                              emf_func_flow |-> pickfirst_emf_func_flow(helper.input)]]
    /\ UNCHANGED toolvars

Call_getthreshop ==
    /\ helper.fn = "getthreshop" /\ ~helper.done
    /\ helper' = [fn |-> helper.fn, done |-> TRUE, input |-> helper.input,
                  result |-> [fsl_flow |-> getthreshop(helper.input),
                              preproc_schemes |-> getthreshop_preproc_schemes(helper.input)]]
    /\ UNCHANGED toolvars

Call_ordersubjects ==
    /\ helper.fn = "ordersubjects" /\ ~helper.done
    /\ helper' = [fn |-> helper.fn, done |-> TRUE, input |-> helper.input,
                  result |-> [level2surf |-> ordersubjects(helper.input.data,
                                                           helper.input.fsys),
                              l2fsflow |-> ordersubjects_l2fsflow(helper.input.data,
                                                                  helper.input.fsys),
                              l2fslflow |-> ordersubjects_l2fslflow(helper.input.data,
                                                                    helper.input.fsys)]]
    /\ UNCHANGED toolvars

\* the select node of the three preprocessing workflows: what goes on to
\* meanscale.in_file
Call_select ==
    /\ helper.fn = "select" /\ ~helper.done
    /\ LET inlist == ConcatOut(helper.input.nruns)
       IN helper' = [fn |-> helper.fn, done |-> TRUE, input |-> helper.input,
                     result |->
                        [fsl_flow |-> SelectOut(inlist, chooseindex(helper.input.fwhm)),
                         preproc_schemes |->
                            SelectOut(inlist, chooseindex_preproc_schemes(helper.input.fwhm)),
                         emf_func_flow |->
                            SelectOut(inlist, chooseindex_emf_func_flow(helper.input.fwhm))]]
    /\ UNCHANGED toolvars

\* extractref and realign of the preprocessing workflows
Call_extractref ==
    /\ helper.fn = "extractref" /\ ~helper.done
    /\ LET runs == Img2FloatOut(helper.input)
       IN helper' = [fn |-> helper.fn, done |-> TRUE, input |-> helper.input,
                     result |->
                        [fsl_flow |-> motion_correct(runs, extract_ref(runs)),
                         emf_func_flow |->
                            motion_correct(runs, extract_ref_emf_func_flow(runs))]]
    /\ UNCHANGED toolvars

Call_sort_copes ==
    /\ helper.fn = "sort_copes" /\ ~helper.done
    /\ helper' = [fn |-> helper.fn, done |-> TRUE, input |-> helper.input,
                  result |-> [fsl_flow |-> sort_copes(helper.input),
                              emf_func_flow |-> sort_copes_emf_func_flow(helper.input)]]
    /\ UNCHANGED toolvars

Call_getbtthresh ==
    /\ helper.fn = "getbtthresh" /\ ~helper.done
    /\ helper' = [fn |-> helper.fn, done |-> TRUE, input |-> helper.input,
                  result |-> getbtthresh(helper.input)]
    /\ UNCHANGED toolvars

Call_getusanval ==
    /\ helper.fn = "getusanval" /\ ~helper.done
    /\ helper' = [fn |-> helper.fn, done |-> TRUE, input |-> helper.input,
                  result |-> [fsl_flow |-> getusanval(helper.input),
                              preproc_schemes |-> usans_preproc_schemes(helper.input),
                              emf_func_flow |-> usans_emf_func_flow(helper.input)]]
    /\ UNCHANGED toolvars

Call_getmeanscale ==
    /\ helper.fn = "getmeanscale" /\ ~helper.done
    /\ helper' = [fn |-> helper.fn, done |-> TRUE, input |-> helper.input,
                  result |-> getmeanscale(helper.input)]
    /\ UNCHANGED toolvars

NextHelpers ==
    \/ Call_orderfiles \/ Call_pickfirst \/ Call_getthreshop
    \/ Call_sort_copes \/ Call_getbtthresh \/ Call_getmeanscale
    \/ Call_ordersubjects \/ Call_select \/ Call_extractref
    \/ Call_getusanval

SpecHelpers == InitHelpers /\ [][NextHelpers]_vars

(***************************************************************************)
(* The execution of a workflow: a node runs once the nodes feeding its     *)
(* inputs have run                                                         *)
(***************************************************************************)
InitFlows ==
    /\ FreshDir
    /\ \E w \in DOMAIN Workflows :
          helper = [fn |-> "workflow", done |-> FALSE, graph |-> w,
                    runs |-> [n \in NodesOf(Workflows[w]) |-> 0]]

RunNode ==
    /\ helper.fn = "workflow"
    /\ \E n \in DOMAIN helper.runs :
          /\ helper.runs[n] = 0
          /\ \A m \in Feeding(Workflows[helper.graph], n) : helper.runs[m] > 0
          /\ LET runs2 == [helper.runs EXCEPT ![n] = @ + 1]
             IN helper' = [helper EXCEPT !.runs = runs2,
                                         !.done = \A m \in DOMAIN runs2 : runs2[m] > 0]
    /\ UNCHANGED toolvars

NextFlows == RunNode

SpecFlows == InitFlows /\ [][NextFlows]_vars /\ WF_vars(NextFlows)

(***************************************************************************)
(* Properties of the helpers                                               *)
(***************************************************************************)
Called(fn) == helper.fn = fn /\ helper.done

\* the path segments of a text: the pieces between "/"
RECURSIVE Segments(_, _, _)
Segments(f, i, cur) ==
    IF i > Len(f) THEN {cur}
    ELSE IF f[i] = "/" THEN {cur} \cup Segments(f, i + 1, <<>>)
         ELSE Segments(f, i + 1, Append(cur, f[i]))

\* the position in subj_list of the one subject id that is a segment of f
SubjectIndex(f, subj_list) ==
    CHOOSE i \in 1..Len(subj_list) : subj_list[i] \in Segments(f, 1, <<>>)

\* every file embeds exactly one subject id of subj_list as a path segment
EmbedsOneSubject(flist, subj_list) ==
    \A j \in 1..Len(flist) :
        Cardinality({i \in 1..Len(subj_list) :
                        subj_list[i] \in Segments(flist[j], 1, <<>>)}) = 1

\* C3: when every file embeds exactly one subject id of subj_list as a path
\* segment, orderfiles returns the files in the order of subj_list: a file of
\* an earlier subject never comes after a file of a later subject.
C3_OrderFollowsSubjList ==
    (Called("orderfiles")
     /\ EmbedsOneSubject(helper.input.files, helper.input.subj_list))
    => \A p, q \in 1..Len(helper.result) :
          p < q => SubjectIndex(helper.result[p], helper.input.subj_list)
                   <= SubjectIndex(helper.result[q], helper.input.subj_list)

\* C4: pickfirst returns its argument unchanged when it is not a list and the
\* first element when it is a non-empty list, and the three copies return the
\* same on every input.
C4_PickFirst ==
    Called("pickfirst")
    => /\ helper.result.fsl_flow = helper.result.preproc_schemes
       /\ helper.result.fsl_flow = helper.result.emf_func_flow
       /\ ~helper.input.islist => helper.result.fsl_flow = Ret(helper.input)
       /\ (helper.input.islist /\ Len(helper.input.items) > 0)
          => helper.result.fsl_flow = Ret(PyAtom(helper.input.items[1]))

C4_Witness ==
    /\ Called("pickfirst")
    /\ helper.input.islist
    /\ Len(helper.input.items) >= 2
    /\ helper.input.items[1] # helper.input.items[Len(helper.input.items)]
    /\ ~helper.result.emf_func_flow.raised

\* the number a digit stands for
DigitValue(ch) == CHOOSE d \in 0..9 : DigitChar(d) = ch

IsDigit(ch) == \E d \in 0..9 : DigitChar(d) = ch

RECURSIVE DigitsToInt(_)
DigitsToInt(ds) ==
    IF Len(ds) = 0 THEN 0
    ELSE 10 * DigitsToInt(SubSeq(ds, 1, Len(ds) - 1)) + DigitValue(ds[Len(ds)])

\* txt is value x written with exactly ten decimals: an optional "-", the
\* integer part without leading zeros, ".", ten digits; its value is x
IsTenDecimalsOf(txt, x) ==
    LET neg == Len(txt) > 0 /\ txt[1] = "-"
        body == IF neg THEN Tail(txt) ELSE txt
        ip == SubSeq(body, 1, Len(body) - 11)
        fr == SubSeq(body, Len(body) - 9, Len(body))
    IN /\ Len(body) >= 12
       /\ body[Len(body) - 10] = "."
       /\ \A i \in 1..Len(ip) : IsDigit(ip[i])
       /\ \A i \in 1..10 : IsDigit(fr[i])
       /\ Len(ip) > 1 => ip[1] # "0"
       /\ neg <=> x.num < 0
       /\ x.dec <= 10
       /\ (DigitsToInt(ip) * Pow10(x.dec) + DigitsToInt(SubSeq(fr, 1, x.dec))) = Abs(x.num)
       /\ \A i \in (x.dec + 1)..10 : fr[i] = "0"

\* C5: getthreshop returns '-thr <t> -Tmin -bin' with <t> one tenth of
\* thresh[0][1] written with ten decimals; both copies return the same; the
\* first statistic of the first run and the later runs do not matter.
C5_ThreshOp ==
    (Called("getthreshop") /\ Len(helper.input) > 0)
    => LET res == helper.result.fsl_flow
           num == SubSeq(res.value, Len(ThrPrefix) + 1, Len(res.value) - Len(ThrSuffix))
           p98 == helper.input[1][2]
       IN /\ ~res.raised
          /\ helper.result.preproc_schemes = res
          /\ Len(res.value) >= Len(ThrPrefix) + Len(ThrSuffix)
          /\ res.value = ThrPrefix \o num \o ThrSuffix
          /\ IsTenDecimalsOf(num, [num |-> p98.num, dec |-> p98.dec + 1])
          /\ \A other \in Stats : getthreshop(<<<<other, p98>>>>) = res

C5_Witness ==
    /\ Called("getthreshop")
    /\ Len(helper.input) >= 2
    /\ helper.input[1][2] # helper.input[2][2]
    /\ helper.input[1][1] # helper.input[1][2]
    /\ helper.input[1][2].num = 98765432
    /\ helper.result.fsl_flow.value
         = ThrPrefix \o <<"9", ".", "8", "7", "6", "5", "4", "3", "2", "0", "0", "0">>
           \o ThrSuffix

\* every run of flist has c contrasts
Rectangular(flist, c) == \A j \in 1..Len(flist) : Len(flist[j]) = c

\* C13: for R >= 1 runs of C contrasts each, sort_copes returns C lists of
\* length R with result[i][j] = files[j][i], in both copies; for C >= 1
\* applying it to its result gives the input back; the call leaves its
\* argument as it was.
C13_SortCopesTransposes ==
    [][(helper.fn = "sort_copes" /\ ~helper.done /\ helper'.done) =>
          /\ helper'.input = helper.input
          /\ (Len(helper.input) >= 1 /\ Rectangular(helper.input, Len(helper.input[1]))) =>
                LET R == Len(helper.input)
                    C == Len(helper.input[1])
                    res == helper'.result.fsl_flow
                IN /\ ~res.raised
                   /\ helper'.result.emf_func_flow = res
                   /\ Len(res.value) = C
                   /\ \A i \in 1..C :
                         /\ Len(res.value[i]) = R
                         /\ \A j \in 1..R : res.value[i][j] = helper.input[j][i]
                   /\ C >= 1 => sort_copes(res.value) = Ret(helper.input)]_vars

\* C13 witness: two runs of two contrasts, all four files different, were
\* transposed
C13_Witness ==
    /\ Called("sort_copes")
    /\ Len(helper.input) = 2 /\ Rectangular(helper.input, 2)
    /\ helper.input[1][2] # helper.input[2][1]
    /\ ~helper.result.fsl_flow.raised
    /\ helper.result.fsl_flow.value[1][2] = helper.input[2][1]

\* C14: on empty input pickfirst, getthreshop and sort_copes raise, while
\* orderfiles (no files, or no subjects), getbtthresh and getmeanscale return
\* an empty list.
C14_EmptyInputs ==
    /\ (Called("pickfirst") /\ helper.input = PyList(<<>>))
          => /\ helper.result.fsl_flow.raised
             /\ helper.result.preproc_schemes.raised
             /\ helper.result.emf_func_flow.raised
    /\ (Called("getthreshop") /\ helper.input = <<>>)
          => helper.result.fsl_flow.raised /\ helper.result.preproc_schemes.raised
    /\ (Called("sort_copes") /\ helper.input = <<>>)
          => helper.result.fsl_flow.raised /\ helper.result.emf_func_flow.raised
    /\ (Called("orderfiles")
        /\ (helper.input.files = <<>> \/ helper.input.subj_list = <<>>))
          => helper.result = <<>>
    /\ (Called("getbtthresh") /\ helper.input = <<>>) => helper.result = Ret(<<>>)
    /\ (Called("getmeanscale") /\ helper.input = <<>>) => helper.result = Ret(<<>>)

\* C14 witness: pickfirst was called with an empty list
C14_Witness ==
    /\ Called("pickfirst")
    /\ helper.input = PyList(<<>>)
    /\ helper.result.fsl_flow.raised

\* the three ordersubjects wrappers applied to one argument
OrderSubjectsAll(data, fsys) ==
    [level2surf |-> ordersubjects(data, fsys),
     l2fsflow |-> ordersubjects_l2fsflow(data, fsys),
     l2fslflow |-> ordersubjects_l2fslflow(data, fsys)]

Elements(q) == {q[i] : i \in 1..Len(q)}

\* C15 (as claimed): the result of each ordersubjects wrapper is the same
\* whatever paths exist in the filesystem.
C15_Stateless ==
    Called("ordersubjects") =>
        \A other \in SUBSET DataItems :
            OrderSubjectsAll(helper.input.data, other) = helper.result

\* C15 (amended): orderfiles returns the same from both copies and whenever it
\* is computed again from its arguments; the result of each ordersubjects
\* wrapper is the same in every filesystem in which the same elements of its
\* argument exist.
C15_DependsOnExistenceOnly ==
    /\ Called("orderfiles") =>
          /\ helper.result = orderfiles(helper.input.files, helper.input.subj_list)
          /\ helper.result = orderfiles_level2vol(helper.input.files,
                                                  helper.input.subj_list)
    /\ Called("ordersubjects") =>
          \A other \in SUBSET DataItems :
              (other \cap Elements(helper.input.data)
                   = helper.input.fsys \cap Elements(helper.input.data))
              => OrderSubjectsAll(helper.input.data, other) = helper.result

\* C15 witness: ordersubjects ordered contrast files of two subjects while a
\* path that is not in its argument existed
C15_Witness ==
    /\ Called("ordersubjects")
    /\ ~helper.result.level2surf.raised
    /\ Len(helper.result.l2fsflow.value) >= 2
    /\ helper.input.fsys \ Elements(helper.input.data) # {}

\* no cycle among the nodes: peeling off the nodes nothing feeds, again
\* and again, leaves nothing
RECURSIVE Acyclic(_, _)
Acyclic(nodes, edges) ==
    LET fed == {e[2] : e \in {d \in edges : d[1] \in nodes}}
    IN IF nodes = {} THEN TRUE
       ELSE IF nodes \subseteq fed THEN FALSE
            ELSE Acyclic(nodes \cap fed, edges)

AllRanOnce == helper.done /\ \A n \in DOMAIN helper.runs : helper.runs[n] = 1

\* C16: the graphs of preproc (fsl_flow and emf_func_flow), create_featpreproc,
\* modelfit and the combined firstlevel pipeline have no cycle, no node ever runs twice, and an
\* execution that runs a node once the nodes feeding it have run gets to the
\* point where every node has run exactly once.
C16_AcyclicRunsEveryNode ==
    /\ [](/\ Acyclic(NodesOf(Workflows[helper.graph]), Workflows[helper.graph])
          /\ \A n \in DOMAIN helper.runs : helper.runs[n] <= 1)
    /\ <>[]AllRanOnce

\* C16 witness: every node of the firstlevel pipeline has run
C16_Witness ==
    /\ helper.fn = "workflow" /\ helper.graph = "firstlevel"
    /\ AllRanOnce
    /\ Cardinality(DOMAIN helper.runs) > 40

\* C17: chooseindex returns [0] when fwhm < 1 and [1] otherwise, in the three
\* copies; what the select node passes on to intensity scaling is the
\* unsmoothed masked runs exactly when fwhm < 1 and the smoothed masked runs
\* exactly when fwhm >= 1, never both and never neither.
C17_SmoothedSelection ==
    Called("select") =>
        LET fwhm == helper.input.fwhm
            n == helper.input.nruns
            out == helper.result.fsl_flow
        IN /\ chooseindex(fwhm) = (IF fwhm.num < 10 THEN <<0>> ELSE <<1>>)
           /\ chooseindex_preproc_schemes(fwhm) = chooseindex(fwhm)
           /\ chooseindex_emf_func_flow(fwhm) = chooseindex(fwhm)
           /\ helper.result.preproc_schemes = out
           /\ helper.result.emf_func_flow = out
           /\ (out = MaskFunc2Out(n)) <=> (fwhm.num < 10)
           /\ (out = MaskFunc3Out(n)) <=> (fwhm.num >= 10)
           /\ Len(out) = n
           /\ \A r \in 1..n : out[r].run = r /\ (out[r].smoothed <=> fwhm.num >= 10)

\* C17 witness: with fwhm = 1 the smoothed runs of two runs were selected
C17_Witness ==
    /\ Called("select")
    /\ helper.input.fwhm.num = 10 /\ helper.input.nruns = 2
    /\ helper.result.fsl_flow = MaskFunc3Out(2)

\* C18 (as claimed): in fsl_flow and emf_func_flow every run is realigned to
\* one volume of the first run, the one at the middle time index of that run.
C18_MiddleVolumeReference ==
    Called("extractref") =>
        \A r \in 1..Len(helper.input) :
            /\ helper.result.fsl_flow[r].ref_file
                 = [run |-> 1, vols |-> {helper.input[1] \div 2}]
            /\ helper.result.emf_func_flow[r].ref_file
                 = [run |-> 1, vols |-> {helper.input[1] \div 2}]

(***************************************************************************)
(* Properties of the conversion tool: the command and the cfg file         *)
(***************************************************************************)
\* C19: in a call of convert_dicoms a command is issued for a subject exactly
\* when write_cfg returned True for it, right after write_cfg and at most
\* once; with a queue it is the batch tool's command line, named after the
\* subject, for that queue, holding the unpack command of the subject; without
\* a queue it is the unpack command itself.
C19_CommandIffToRun ==
    /\ \A s \in Subjects : Cardinality(Events(log, "system", s)) <= 1
    /\ \A i \in 1..Len(log) :
          /\ (log[i].ev = "write_cfg" /\ ~log[i].raised) =>
                (log[i].torun <=> (i < Len(log) /\ log[i + 1].ev = "system"
                                   /\ log[i + 1].sid = log[i].sid))
          /\ log[i].ev = "system" =>
                /\ i > 1 /\ log[i - 1].ev = "write_cfg" /\ log[i - 1].torun
                /\ log[i - 1].sid = log[i].sid
                /\ LET unpack == [tool |-> "unpacksdcmdir", src |-> log[i].sid,
                                  targ |-> log[i].sid, cfg |-> log[i].sid]
                   IN IF args.queue # NoneVal
                      THEN log[i].cmd = [tool |-> "ezsub.py", name |-> log[i].sid,
                                         queue |-> args.queue, cmd |-> unpack]
                      ELSE log[i].cmd = unpack

\* C19 witness: a run with a queue submitted the command for one subject and
\* issued nothing for another
C19_Witness ==
    /\ pc = "done" /\ args.queue = "twocore"
    /\ \E s1, s2 \in Converted :
          /\ \E i \in Events(log, "system", s1) : log[i].cmd.tool = "ezsub.py"
          /\ Events(log, "system", s2) = {}
          /\ \E i \in Events(log, "write_cfg", s2) : ~log[i].torun

\* C20: when write_cfg returns, its result is True exactly when some expected
\* output did not exist when it was called, and the cfg file has one line
\* "<v> <category> nii <output>" for each expected output that did not exist
\* and no other line; when every expected output existed the cfg file is empty
\* and the result False.
C20_WriteCfgResult ==
    [][(InConvert /\ log' # log) =>
          LET s == Sid
              lines == cfg'[s].lines
          IN \A i \in Events(log', "write_cfg", s) :
                ~log'[i].raised =>
                    LET missing == Expected(log'[i].info, s, args.ext) \ files[s]
                    IN /\ log'[i].torun <=> missing # {}
                       /\ Len(lines) = Cardinality(missing)
                       /\ {OutFile(lines[n][2], lines[n][4]) : n \in 1..Len(lines)} = missing
                       /\ \A n \in 1..Len(lines) :
                             /\ lines[n][1] = lines[n][4].v
                             /\ lines[n][3] = "nii"
                             /\ lines[n][4].sid = s /\ lines[n][4].ext = args.ext
                             /\ log'[i].info[lines[n][2]][lines[n][4].r + 1] = lines[n][1]
                       /\ missing = {} => (lines = <<>> /\ ~log'[i].torun)]_vars

\* C20 witness: write_cfg found one expected output in place and another
\* missing, and listed only the missing one
C20_Witness ==
    \E i \in 1..Len(log) :
        /\ log[i].ev = "write_cfg" /\ log[i].torun /\ ~log[i].raised
        /\ Len(cfg[log[i].sid].lines) = 1
        /\ Cardinality(Expected(log[i].info, log[i].sid, args.ext)) = 2

(***************************************************************************)
(* Properties of the preprocessing helpers (continued)                     *)
(***************************************************************************)
\* the ten-decimal text txt read against n / d, decimal by decimal: what is
\* left of n - txt * d, in units of the last decimal read
RECURSIVE ScaledError(_, _, _, _)
ScaledError(frac, pos, d, err) ==
    IF pos > Len(frac) \/ Abs(err) > d THEN err
    ELSE ScaledError(frac, pos + 1, d, 10 * err - DigitValue(frac[pos]) * d)

\* txt is the number with ten decimals nearest to n / d
IsNearestTenDecimals(txt, n, d) ==
    LET ip == SubSeq(txt, 1, Len(txt) - 11)
        fr == SubSeq(txt, Len(txt) - 9, Len(txt))
    IN /\ Len(txt) >= 12
       /\ txt[Len(txt) - 10] = "."
       /\ \A i \in 1..Len(ip) : IsDigit(ip[i])
       /\ \A i \in 1..10 : IsDigit(fr[i])
       /\ Len(ip) > 1 => ip[1] # "0"
       /\ 2 * Abs(ScaledError(fr, 1, d, n - DigitsToInt(ip) * d)) <= d

\* the i-th scaling operation is '-mul ' and 10000 / medianvals[i] with ten
\* decimals
IsMeanScaleOf(op, val) ==
    /\ Len(op) > Len(MulPrefix)
    /\ SubSeq(op, 1, Len(MulPrefix)) = MulPrefix
    /\ IsNearestTenDecimals(SubSeq(op, Len(MulPrefix) + 1, Len(op)),
                            10000 * Pow10(val.dec), val.num)

\* C21 (as stated): getmeanscale returns, for every list of medians, a list
\* of the same length whose i-th element is '-mul ' followed by
\* 10000/medianvals[i] with ten decimals, also for a run whose median is 0.
C21_ReturnsForEveryRun ==
    Called("getmeanscale") =>
        /\ ~helper.result.raised
        /\ Len(helper.result.value) = Len(helper.input)

\* C21 (amended): when no median is 0, getmeanscale returns a list of the
\* same length and order whose i-th element is '-mul ' followed by
\* 10000/medianvals[i] rounded to ten decimals; when some median is 0 it
\* raises and returns nothing; both copies behave the same.
C21_MeanScaleUnlessZero ==
    Called("getmeanscale") =>
        /\ helper.result = getmeanscale_preproc_schemes(helper.input)
        /\ helper.result.raised <=> \E i \in 1..Len(helper.input) : helper.input[i].num = 0
        /\ ~helper.result.raised =>
              /\ Len(helper.result.value) = Len(helper.input)
              /\ \A i \in 1..Len(helper.input) :
                    IsMeanScaleOf(helper.result.value[i], helper.input[i])

\* C21 witness: two runs with medians 0.6 and 1600 were scaled, the first by
\* a factor that is rounded up
C21_Witness ==
    /\ Called("getmeanscale")
    /\ helper.input = <<[num |-> 6, dec |-> 1], [num |-> 16000, dec |-> 1]>>
    /\ helper.result.value
         = << MulPrefix \o <<"1", "6", "6", "6", "6", ".",
                              "6", "6", "6", "6", "6", "6", "6", "6", "6", "7">>,
              MulPrefix \o <<"6", ".", "2", "5", "0", "0", "0", "0", "0", "0", "0", "0">> >>

\* y is three quarters of x
IsThreeQuartersOf(y, x) == 4 * y.num * Pow10(x.dec) = 3 * x.num * Pow10(y.dec)

\* C22: getbtthresh returns 0.75 times each median in input order, the same
\* in the three files; the usans transform returns, for each (mean_file,
\* median) pair in input order, a one-element list holding the tuple
\* (mean_file, 0.75*median); getusanval of fsl_flow and the lambdas of
\* preproc_schemes and emf_func_flow return the same.
C22_SusanInputs ==
    /\ Called("getbtthresh") =>
          /\ ~helper.result.raised
          /\ helper.result = getbtthresh_preproc_schemes(helper.input)
          /\ helper.result = getbtthresh_emf_func_flow(helper.input)
          /\ Len(helper.result.value) = Len(helper.input)
          /\ \A i \in 1..Len(helper.input) :
                IsThreeQuartersOf(helper.result.value[i], helper.input[i])
    /\ Called("getusanval") =>
          LET res == helper.result.fsl_flow
          IN /\ ~res.raised
             /\ helper.result.preproc_schemes = res
             /\ helper.result.emf_func_flow = res
             /\ Len(res.value) = Len(helper.input)
             /\ \A i \in 1..Len(helper.input) :
                   /\ Len(res.value[i]) = 1
                   /\ Len(res.value[i][1]) = 2
                   /\ res.value[i][1][1] = helper.input[i][1]
                   /\ IsThreeQuartersOf(res.value[i][1][2], helper.input[i][2])

\* C22 witness: the usans of two runs with different mean images and medians
\* 0.8 and 1600 were computed as (mean1.nii, 0.6) and (mean2.nii, 1200)
C22_Witness ==
    /\ Called("getusanval")
    /\ helper.input = << <<"mean1.nii", [num |-> 8, dec |-> 1]>>,
                         <<"mean2.nii", [num |-> 16000, dec |-> 1]>> >>
    /\ helper.result.fsl_flow.value
         = << << <<"mean1.nii", [num |-> 600, dec |-> 3]>> >>,
              << <<"mean2.nii", [num |-> 1200000, dec |-> 3]>> >> >>

(***************************************************************************)
(* Properties of the workflow graphs (continued)                           *)
(***************************************************************************)
\* C23 (as stated): in every graph that has a highpass node, the op_string
\* input of the node is supplied by a connection or by its constructor, so a
\* highpass node that has run has applied the filter operation.
C23_HighpassOpSupplied ==
    (/\ helper.fn = "workflow"
     /\ "highpass" \in DOMAIN helper.runs
     /\ helper.runs["highpass"] > 0)
    => /\ "op_string" \in HighpassConstructor \cup HighpassConnected[helper.graph]
       /\ HighpassOperation(helper.graph) = "-bptf"

(***************************************************************************)
(* Properties of the surface-level ordersubjects                           *)
(***************************************************************************)
\* no subject id of the list is the end of another one, so that '<id>/' is in
\* a path only where <id> is a segment of it
NoIdEndsAnother(subj_list) ==
    \A i, j \in 1..Len(subj_list) :
        i # j => ~EndsWith(subj_list[i], subj_list[j])

\* C24 (as stated): for a list of existing contrast files, existing
\* registration files and subject ids, in which every file is of one subject
\* of the list, the surface-level ordersubjects returns pairs (con, reg) of
\* the same subject, in subject-list order, one pair per contrast file; also
\* when a subject has a contrast file but no registration file or the
\* reverse.
C24_PairsOfSameSubject ==
    LET data == helper.input.data
        existing == SelectSeq(data, LAMBDA f : f \in helper.input.fsys)
        subj_list == SelectSeq(data, LAMBDA f : f \notin helper.input.fsys)
        con_list == SelectSeq(existing, LAMBDA f : ~EndsWith(f, DatSuffix))
        res == helper.result.level2surf
    IN (/\ Called("ordersubjects")
        /\ \A i \in 1..Len(subj_list) : subj_list[i] \in DataSubjIds
        /\ NoIdEndsAnother(subj_list)
        /\ EmbedsOneSubject(existing, subj_list))
       => /\ ~res.raised
          /\ Len(res.value) = Len(con_list)
          /\ \A p \in 1..Len(res.value) :
                /\ ~EndsWith(res.value[p][1], DatSuffix)
                /\ EndsWith(res.value[p][2], DatSuffix)
                /\ SubjectIndex(res.value[p][1], subj_list)
                     = SubjectIndex(res.value[p][2], subj_list)
          /\ \A p, q \in 1..Len(res.value) :
                p < q => SubjectIndex(res.value[p][1], subj_list)
                         <= SubjectIndex(res.value[q][1], subj_list)

(***************************************************************************)
(* Properties of the conversion tool (continued)                           *)
(***************************************************************************)
\* the positions in the log at which <s>.auto.txt was written
Saved(s) == {i \in Events(log, "save_json", s) : log[i].ok}

\* the loop of convert_dicoms has stopped at subject args.subjs[k + 1]
\* because getting its info raised (the heuristic, load_json of the edit
\* file, or save_json of the heuristic's result)
InfoRaised ==
    /\ pc = "raised" /\ Len(log) > 0
    /\ log[Len(log)].ev = "raise"
    /\ log[Len(log)].what \in {"edit", "heuristic"}

\* nothing was written or issued in this run for the subjects from position j
NothingDoneFrom(j) ==
    \A i \in j..Len(args.subjs) :
        /\ Events(log, "write_cfg", args.subjs[i]) = {}
        /\ Events(log, "system", args.subjs[i]) = {}
        /\ Saved(args.subjs[i]) = {}

DoneBeforeRaise(s) ==
    /\ cfg[s].exists
    /\ Cardinality(Events(log, "write_cfg", s)) = 1
    /\ \A i \in Events(log, "write_cfg", s) :
          /\ ~log[i].raised
          /\ Saved(s) # {} <=> log[i].src = "heuristic"
          /\ Events(log, "system", s) # {} <=> log[i].torun
          /\ \A j \in Events(log, "system", s) \cup Saved(s) :
                j \in {i - 1, i + 1}
          /\ \A c \in Cats :
                log[i].info[c] # <<>> =>
                    GlobExt(files[s], c, args.ext)
                        \subseteq Expected(log[i].info, s, args.ext)

\* the events of the subjects are in the log in list order
InListOrder ==
    \A i, j \in 1..Len(log) :
        (i < j /\ log[i].ev \in {"write_cfg", "system", "save_json"}
               /\ log[j].ev \in {"write_cfg", "system", "save_json", "raise"})
        => log[i].sid <= log[j].sid

\* the files of the subjects from position j stay as they are
UntouchedFrom(j) ==
    \A i \in j..Len(args.subjs) :
        LET s == args.subjs[i]
        IN /\ cfg'[s] = cfg[s] /\ autotxt'[s] = autotxt[s] /\ files'[s] = files[s]
           /\ s \notin jobs'

====
